---- MODULE Spec2Model ----
(***************************************************************************)
(* Overlap escalation engine of crossbeam-automation (src/main.py,         *)
(* src/scripts/overlap_utils.py, src/scripts/llm_utils.py).                *)
(*                                                                         *)
(* State: the module globals of main.py (resolved_state,                   *)
(* processed_overlaps, current_overlap_id, messaging_lock, INTERNAL_TEAM), *)
(* the record snapshot overlap_qualifier.crossbeam_data, the               *)
(* scoring_weights table, and one entry of `threads` per                   *)
(* threading.Thread(target=send_messages_with_gap) that was started.       *)
(*                                                                         *)
(* The FastAPI handlers are `async def` bodies without an await between    *)
(* their writes, so each handler is one step of the event loop: it takes   *)
(* state_lock, which must be free, and has released it when the step       *)
(* ends.  A runner thread takes state_lock in a step of its own            *)
(* (RunnerAcquire) and releases it with the step that runs the body of     *)
(* the `with` block; while it holds the lock no handler can run.           *)
(*                                                                         *)
(* Numbers: a weight is the integer stored in scoring_weights.weight (a    *)
(* percentage, get_weights divides it by 100); attribute scores are        *)
(* integers; a section score is kept as 100 x the Python float and a       *)
(* priority score as 200 x the Python float, so no rounding occurs.        *)
(* Strings that the code orders (record names) are sequences of code       *)
(* points compared as Python compares str.                                 *)
(***************************************************************************)
EXTENDS Integers, Sequences, FiniteSets, TLC

\* ------------------------------------------------------------------ bounds
\* number of mutation requests served: a team member added, updated or
\* deleted, or the weights saved
MaxMutations == 1

\* ------------------------------------------------------- Python primitives
\* Python's None
None == "None"

\* bool(x) for the str / None values the code tests with `if x:` / `if not x:`
Truthy(x) == x # None /\ x # ""

\* d.get(k, default) on a dict modelled as a function on its key set
DictGet(d, k, default) == IF k \in DOMAIN d THEN d[k] ELSE default

\* d[k] = v
DictSet(d, k, v) == [x \in (DOMAIN d) \cup {k} |-> IF x = k THEN v ELSE d[x]]

\* a < b for two str values (sequences of code points)
RECURSIVE StrLess(_, _)
StrLess(a, b) ==
    IF a = <<>> THEN b # <<>>
    ELSE IF b = <<>> THEN FALSE
    ELSE IF Head(a) # Head(b) THEN Head(a) < Head(b)
    ELSE StrLess(Tail(a), Tail(b))

\* max(iterable, default=0) over a set of integers
MaxOf(S) == IF S = {} THEN 0 ELSE CHOOSE x \in S : \A y \in S : y <= x

\* --------------------------------------------------------------- the data
\* the record names used below, as code points: "Acme", "Zenith", "Beta", "Low"
NameAcme == <<65, 99, 109, 101>>
NameZenith == <<90, 101, 110, 105, 116, 104>>
NameBeta == <<66, 101, 116, 97>>
NameLow == <<76, 111, 119>>

\* a row of crossbeam_records: id, name, logo flag, the five opportunity
\* attribute scores and the three partner attribute scores that are scored
Rec(id, name, logo, o, p) ==
    [id |-> id, opportunity_name |-> name, logo_potential |-> logo,
     opportunity_size_score |-> o[1], relationship_status_score |-> o[2],
     engagement_score_score |-> o[3], opportunity_stage_score |-> o[4],
     winnability_score |-> o[5],
     relationship_strength_score |-> p[1], recent_deal_support_score |-> p[2],
     stickiness_score |-> p[3]]

\* the snapshots load_crossbeam_data() may have returned at import time
Snapshots ==
    { << Rec("r1", NameAcme, FALSE, <<3, 3, 3, 3, 3>>, <<3, 3, 3>>),
         Rec("r2", NameZenith, FALSE, <<3, 3, 3, 3, 3>>, <<3, 3, 3>>),
         Rec("r3", NameLow, FALSE, <<1, 1, 1, 1, 0>>, <<0, 0, 0>>) >>,
      << Rec("r1", NameAcme, FALSE, <<5, 4, 4, 4, 4>>, <<5, 4, 4>>),
         Rec("r2", NameBeta, TRUE, <<2, 2, 2, 2, 2>>, <<2, 2, 2>>) >> }

\* the record ids of the model
RecordIds == {"r1", "r2", "r3"}

\* the exclude_id arguments of the calls of trigger_overlap_processing: every
\* call of the repository leaves it out
ExcludeIds == {None}

\* a row of scoring_weights per section, as the stored percentage
Weights(os, rs, es, st, wi, rss, rds, sts) ==
    [opportunity |-> [opportunity_size |-> os, relationship_status |-> rs,
                      engagement_score |-> es, opportunity_stage |-> st,
                      winnability |-> wi],
     partner |-> [relationship_strength_score |-> rss,
                  recent_deal_support |-> rds, stickiness_score |-> sts]]

\* the weight tables of the model: balanced, all zero
WeightSets ==
    { Weights(20, 20, 20, 20, 20, 40, 30, 30),
      Weights(0, 0, 0, 0, 0, 0, 0, 0) }

\* a row of internal_team
Member(name, hierarchy, max_message, webhook_url, channel_id) ==
    [name |-> name, hierarchy |-> hierarchy, max_message |-> max_message,
     webhook_url |-> webhook_url, channel_id |-> channel_id]

\* the rosters load_internal_team_from_db() may have returned at import time
Rosters ==
    { << Member("X", 1, 3, "hook", "chan"), Member("Y", 2, 1, "hook", "chan") >>,
      << Member("X", 1, 0, "hook", "chan"), Member("Y", 3, 1, "hook", "chan"),
         Member("W", 3, 1, "", "chan") >>,
      << Member("X", 1, 2, "", "chan"), Member("Y", 1, 1, "hook", "chan") >>,
      << >> }

\* the member rows a roster mutation may write
MemberPool == { Member("Z", 2, 2, "hook", "chan") }

\* ---------------------------------------------------------------- state
VARIABLES
    crossbeam_data,      \* overlap_qualifier.crossbeam_data, loaded once
    weights,             \* the scoring_weights table
    INTERNAL_TEAM,       \* the roster, in row order
    resolved_state,      \* dict record_id -> bool
    processed_overlaps,  \* dict record_id -> bool
    current_overlap_id,  \* the active escalation, or None
    messaging_lock,      \* 0 when free, else the index of the holding thread
    state_lock,          \* 0 when free, else the index of the holding thread
    threads,             \* one entry per started send_messages_with_gap thread
    app,                 \* "init" before lifespan startup, "serving", "stopped"
    sent,                \* log of the messages handed to Slack, in order
    last,                \* the step taken last and what it saw (history)
    mutations            \* mutation requests served so far

vars == <<crossbeam_data, weights, INTERNAL_TEAM, resolved_state,
          processed_overlaps, current_overlap_id, messaging_lock, state_lock, threads,
          app, sent, last, mutations>>

\* the record_id a resolve request may carry: the id of a record of the
\* snapshot, which the trackers do not know before the record is selected, or
\* none
ResolveIds == {crossbeam_data[k].id : k \in 1..Len(crossbeam_data)} \cup {""}

\* ------------------------------------------------------------ ScoringEngine
\* the value of an attribute whose column is NULL in the row: record[k] is
\* None (the scores themselves are 0..5)
Null == -1

\* record.get(k, 0): 0 only when the key is absent, the stored value (None
\* included) when it is present
Attr(record, k) == DictGet(record, k, 0)

\* the keys opportunity_score reads from the record (lines 98-102)
OpportunityAttributes ==
    {"opportunity_size_score", "relationship_status_score",
     "engagement_score_score", "opportunity_stage_score", "winnability_score"}

\* the keys partner_score reads from the record (lines 110-112)
PartnerAttributes ==
    {"relationship_strength_score", "recent_deal_support_score",
     "stickiness_score"}

\* whether the evaluation of the two section scores of calculate_priority_score
\* (lines 191-192) raises: an operand record.get(k, 0) of `*` is None, and
\* None * float is a TypeError
ScoreRaises(record) ==
    \E k \in OpportunityAttributes \cup PartnerAttributes : Attr(record, k) = Null

\* opportunity_score(record) with weights = get_weights('opportunity'); x 100
\* (the value when no operand is None)
opportunity_score(record, w) ==
    Attr(record, "opportunity_size_score") * w.opportunity.opportunity_size
    + Attr(record, "relationship_status_score") * w.opportunity.relationship_status
    + Attr(record, "engagement_score_score") * w.opportunity.engagement_score
    + Attr(record, "opportunity_stage_score") * w.opportunity.opportunity_stage
    + Attr(record, "winnability_score") * w.opportunity.winnability

\* partner_score(record) with weights = get_weights('partner'); x 100 (the
\* value when no operand is None)
partner_score(record, w) ==
    Attr(record, "relationship_strength_score") * w.partner.relationship_strength_score
    + Attr(record, "recent_deal_support_score") * w.partner.recent_deal_support
    + Attr(record, "stickiness_score") * w.partner.stickiness_score

\* calculate_priority_score without the logo_potential branch
calculate_priority_score_nologo(record, w) ==
    LET logo_potential == record.logo_potential
        o_score == opportunity_score(record, w)
        pa_score == partner_score(record, w)
    IN  [logo_potential |-> logo_potential,
         priority_score |-> IF o_score # 0 /\ pa_score # 0
                            THEN o_score + pa_score
                            ELSE 2 * MaxOf({o_score, pa_score, 0}),
         priority_level |-> "SCORED"]

\* calculate_priority_score that averages the two section scores in every case
calculate_priority_score_avg(record, w) ==
    LET logo_potential == record.logo_potential
        o_score == opportunity_score(record, w)
        pa_score == partner_score(record, w)
    IN  IF logo_potential
        THEN [logo_potential |-> logo_potential, priority_score |-> 5 * 200,
              priority_level |-> "LOGO POTENTIAL"]
        ELSE [logo_potential |-> logo_potential,
              priority_score |-> o_score + pa_score,
              priority_level |-> "SCORED"]

\* OverlapQualifier.calculate_priority_score: the context it returns, with
\* priority_score = 200 x final_score
calculate_priority_score(record, w) ==
    LET logo_potential == record.logo_potential
        o_score == opportunity_score(record, w)
        pa_score == partner_score(record, w)
    IN  IF logo_potential
        THEN [logo_potential |-> logo_potential, priority_score |-> 5 * 200,
              priority_level |-> "LOGO POTENTIAL"]
        ELSE [logo_potential |-> logo_potential,
              priority_score |-> IF o_score # 0 /\ pa_score # 0
                                 THEN o_score + pa_score
                                 ELSE 2 * MaxOf({o_score, pa_score, 0}),
              priority_level |-> "SCORED"]

\* should_process_overlap that lets every record through
should_process_overlap_all(record, w) ==
    LET context == calculate_priority_score(record, w)
    IN  [should_process |-> TRUE, context |-> context]

\* OverlapQualifier.should_process_overlap: (should_process, context)
should_process_overlap(record, w) ==
    LET context == calculate_priority_score(record, w)
    IN  [should_process |-> context.priority_score >= 1 * 200
                            \/ context.logo_potential,
         context |-> context]

\* --------------------------------------------------------- CandidateSelector
\* the sort key with the order of the logo_potential component inverted
KeyLess_logolast(a, b) ==
    IF a.logo_potential # b.logo_potential THEN a.logo_potential
    ELSE IF a.priority_score # b.priority_score
         THEN a.priority_score < b.priority_score
    ELSE StrLess(a.record_name, b.record_name)

\* the sort key without its record_name component
KeyLess_noname(a, b) ==
    IF a.logo_potential # b.logo_potential THEN b.logo_potential
    ELSE a.priority_score < b.priority_score

\* the sort key (logo_potential, priority_score, record_name): a < b
KeyLess(a, b) ==
    IF a.logo_potential # b.logo_potential THEN b.logo_potential
    ELSE IF a.priority_score # b.priority_score
         THEN a.priority_score < b.priority_score
    ELSE StrLess(a.record_name, b.record_name)

\* the entry the list comprehension of get_best_overlap builds for a record
OverlapEntry(record, w) ==
    LET context == should_process_overlap(record, w).context
    IN  [record_id |-> record.id, record_name |-> record.opportunity_name,
         priority_score |-> context.priority_score,
         logo_potential |-> record.logo_potential]

\* the condition without its test of processed_overlaps
Eligible_noprocessed(record, exclude_id, w) ==
    /\ should_process_overlap(record, w).should_process
    /\ record.id # exclude_id
    /\ ~DictGet(resolved_state, record.id, FALSE)

\* the condition without its test of resolved_state
Eligible_noresolved(record, exclude_id, w) ==
    /\ should_process_overlap(record, w).should_process
    /\ record.id # exclude_id
    /\ ~DictGet(processed_overlaps, record.id, FALSE)

\* the condition of the list comprehension of get_best_overlap
Eligible(record, exclude_id, w) ==
    /\ should_process_overlap(record, w).should_process
    /\ record.id # exclude_id
    /\ ~DictGet(resolved_state, record.id, FALSE)
    /\ ~DictGet(processed_overlaps, record.id, FALSE)

\* get_best_overlap that returns None when a single record is eligible
get_best_overlap_lone(exclude_id, w) ==
    LET all_overlaps == {i \in 1..Len(crossbeam_data) :
                            Eligible(crossbeam_data[i], exclude_id, w)}
        key(i) == OverlapEntry(crossbeam_data[i], w)
        best == CHOOSE i \in all_overlaps :
                    \A j \in all_overlaps :
                        /\ ~KeyLess(key(i), key(j))
                        /\ (~KeyLess(key(j), key(i)) => i <= j)
    IN  IF Cardinality(all_overlaps) < 2 THEN <<>> ELSE <<key(best)>>

\* the body of get_best_overlap(exclude_id) over the rows data: <<>> for
\* None, else <<best>>.  sorted(..., reverse=True)[0] is the first entry, in
\* the order of data, whose key is maximal (the sort is stable).
get_best_overlap_of(data, exclude_id, w) ==
    LET all_overlaps == {i \in 1..Len(data) : Eligible(data[i], exclude_id, w)}
        key(i) == OverlapEntry(data[i], w)
        best == CHOOSE i \in all_overlaps :
                    \A j \in all_overlaps :
                        /\ ~KeyLess(key(i), key(j))
                        /\ (~KeyLess(key(j), key(i)) => i <= j)
    IN  IF all_overlaps = {} THEN <<>> ELSE <<key(best)>>

\* get_best_overlap(exclude_id), over overlap_qualifier.crossbeam_data
get_best_overlap(exclude_id, w) ==
    get_best_overlap_of(crossbeam_data, exclude_id, w)

\* ------------------------------------------------------------ runner threads
\* threading.Thread(target=send_messages_with_gap, args=(record_id, context)):
\* the locals of the call, its position pc, and what it has done so far
\* (success: the local of line 289, which is not read after line 290: it is
\* kept through the delay and "" from the step that follows it; nsent, visited, exit: history; rs_n:
\* the number of messages sent when a
\* resolve request for record_id first completed during the run, -1 before
\* that; rs_passed: whether the pre-send check of a message not yet handed to
\* Slack had passed at that moment)
NewThread(record_id) ==
    [record_id |-> record_id, pc |-> "start", max_hierarchy |-> 0,
     hierarchy_level |-> 0, internal_members |-> <<>>, m |-> 0, idx |-> 0,
     message |-> "", success |-> "", nsent |-> 0, visited |-> <<>>, exit |-> "",
     rs_n |-> -1, rs_passed |-> FALSE]

\* a thread that has been started and has not returned or died
Alive(t) == t.pc \notin {"done", "dead"}

\* history: note on the running thread of record_id that a resolve took effect
MarkResolved(ts, record_id) ==
    [i \in 1..Len(ts) |->
        IF ts[i].record_id = record_id /\ Alive(ts[i]) /\ ts[i].rs_n = -1
        THEN [ts[i] EXCEPT !.rs_n = ts[i].nsent,
                           !.rs_passed = ts[i].pc \in {"compose", "send"}]
        ELSE ts[i]]

\* history: a thread that has ended, without its locals and its history
Retired(t) ==
    IF Alive(t) THEN t
    ELSE [NewThread(t.record_id) EXCEPT !.pc = t.pc, !.exit = t.exit]

\* history kept per run: when a thread is started, the threads that have ended
\* keep their record_id and how they ended, and `sent` keeps the messages of
\* the threads still running
StartThread(ts, record_id) ==
    Append([i \in 1..Len(ts) |-> Retired(ts[i])], NewThread(record_id))

SentOfAlive(ts, log) ==
    SelectSeq(log, LAMBDA e : \E i \in 1..Len(ts) :
                                 Alive(ts[i]) /\ ts[i].record_id = e.record_id)

\* history: "trigger" and what the call found when the step taken last called
\* trigger_overlap_processing, "resolve" and the status code of the response
\* after a resolve request, "" and "" after any other step; unlocked: which of
\* resolved_state, processed_overlaps and current_overlap_id the step read
\* for a decision, or wrote, outside every `with state_lock:` block
Step(op, status) == [op |-> op, status |-> status, unlocked |-> {}]

\* history: the step made these accesses without holding state_lock
Unlocked(step, names) == [step EXCEPT !.unlocked = names]

\* what a call of trigger_overlap_processing finds: an escalation is active,
\* a candidate to start, or no candidate
TriggerCase(exclude_id, w) ==
    IF Truthy(current_overlap_id) THEN "active"
    ELSE IF get_best_overlap(exclude_id, w) # <<>> THEN "started"
    ELSE "empty"

\* ------------------------------------------------------ EscalationController
\* trigger_overlap_processing without the `if current_overlap_id:` early return
trigger_overlap_processing_nocheck(exclude_id, w) ==
    /\ state_lock = 0
    /\ LET best_overlap == get_best_overlap(exclude_id, w)
       IN  IF best_overlap # <<>>
           THEN LET best_id == best_overlap[1].record_id
                IN  /\ resolved_state' = DictSet(resolved_state, best_id, FALSE)
                    /\ processed_overlaps' = DictSet(processed_overlaps, best_id, TRUE)
                    /\ current_overlap_id' = best_id
                    /\ threads' = StartThread(threads, best_id)
                    /\ sent' = SentOfAlive(threads, sent)
           ELSE UNCHANGED <<resolved_state, processed_overlaps,
                            current_overlap_id, threads, sent>>

\* trigger_overlap_processing that starts the thread but leaves
\* current_overlap_id as it was
trigger_overlap_processing_noset(exclude_id, w) ==
    /\ state_lock = 0
    /\ IF Truthy(current_overlap_id)
       THEN UNCHANGED <<resolved_state, processed_overlaps, current_overlap_id,
                       threads, sent>>
       ELSE LET best_overlap == get_best_overlap(exclude_id, w)
            IN  IF best_overlap # <<>>
                THEN LET best_id == best_overlap[1].record_id
                     IN  /\ resolved_state' = DictSet(resolved_state, best_id, FALSE)
                         /\ processed_overlaps' = processed_overlaps
                         /\ current_overlap_id' = current_overlap_id
                         /\ threads' = StartThread(threads, best_id)
                         /\ sent' = SentOfAlive(threads, sent)
                ELSE UNCHANGED <<resolved_state, processed_overlaps,
                                 current_overlap_id, threads, sent>>

\* trigger_overlap_processing that empties resolved_state when it finds no
\* candidate
trigger_overlap_processing_reset(exclude_id, w) ==
    /\ state_lock = 0
    /\ IF Truthy(current_overlap_id)
       THEN UNCHANGED <<resolved_state, processed_overlaps, current_overlap_id,
                       threads, sent>>
       ELSE LET best_overlap == get_best_overlap(exclude_id, w)
            IN  IF best_overlap # <<>>
                THEN LET best_id == best_overlap[1].record_id
                     IN  /\ resolved_state' = DictSet(resolved_state, best_id, FALSE)
                         /\ processed_overlaps' = DictSet(processed_overlaps, best_id, TRUE)
                         /\ current_overlap_id' = best_id
                         /\ threads' = StartThread(threads, best_id)
                         /\ sent' = SentOfAlive(threads, sent)
                ELSE /\ resolved_state' = <<>>
                     /\ UNCHANGED <<processed_overlaps, current_overlap_id,
                                    threads, sent>>

\* trigger_overlap_processing(exclude_id), the whole `with state_lock:` block;
\* w is what get_weights returns during the call
trigger_overlap_processing(exclude_id, w) ==
    /\ state_lock = 0
    /\ IF Truthy(current_overlap_id)
       THEN UNCHANGED <<resolved_state, processed_overlaps, current_overlap_id,
                       threads, sent>>
       ELSE LET best_overlap == get_best_overlap(exclude_id, w)
            IN  IF best_overlap # <<>>
                THEN LET best_id == best_overlap[1].record_id
                     IN  /\ resolved_state' = DictSet(resolved_state, best_id, FALSE)
                         /\ processed_overlaps' = DictSet(processed_overlaps, best_id, TRUE)
                         /\ current_overlap_id' = best_id
                         /\ threads' = StartThread(threads, best_id)
                         /\ sent' = SentOfAlive(threads, sent)
                ELSE UNCHANGED <<resolved_state, processed_overlaps,
                                 current_overlap_id, threads, sent>>

\* a call of trigger(excludeId?) by a caller of the controller
Trigger(exclude_id) ==
    /\ app = "serving"
    /\ trigger_overlap_processing(exclude_id, weights)
    /\ last' = Step("trigger", TriggerCase(exclude_id, weights))
    /\ UNCHANGED <<crossbeam_data, weights, INTERNAL_TEAM, messaging_lock, state_lock,
                   app, mutations>>

\* lifespan, up to the yield: the scoring_weights query raised
lifespan_startup_failed ==
    /\ app = "init"
    /\ app' = "serving"
    /\ last' = Step("", "")
    /\ UNCHANGED <<crossbeam_data, weights, INTERNAL_TEAM, resolved_state,
                   processed_overlaps, current_overlap_id, messaging_lock, state_lock,
                   threads, sent, mutations>>

\* lifespan, up to the yield: get_best_overlap() is called at line 200, before
\* the `with state_lock:` of line 210, so the selector's reads of
\* resolved_state and processed_overlaps are made without the lock; the three
\* writes are made under it, then the thread is started
lifespan_startup ==
    /\ app = "init"
    /\ app' = "serving"
    /\ LET best_overlap == get_best_overlap(None, weights)
       IN  IF best_overlap # <<>>
           THEN LET record_id == best_overlap[1].record_id
                IN  /\ state_lock = 0
                    /\ resolved_state' = DictSet(resolved_state, record_id, FALSE)
                    /\ processed_overlaps' = DictSet(processed_overlaps, record_id, TRUE)
                    /\ current_overlap_id' = record_id
                    /\ threads' = StartThread(threads, record_id)
                    /\ sent' = SentOfAlive(threads, sent)
           ELSE UNCHANGED <<resolved_state, processed_overlaps,
                            current_overlap_id, threads, sent>>
    /\ last' = Unlocked(Step("", ""), {"resolved_state", "processed_overlaps"})
    /\ UNCHANGED <<crossbeam_data, weights, INTERNAL_TEAM, messaging_lock, state_lock,
                   mutations>>

\* lifespan, after the yield
lifespan_shutdown ==
    /\ app = "serving"
    /\ state_lock = 0
    /\ app' = "stopped"
    /\ current_overlap_id' = None
    /\ last' = Step("", "")
    /\ UNCHANGED <<crossbeam_data, weights, INTERNAL_TEAM, resolved_state,
                   processed_overlaps, messaging_lock, state_lock, threads, sent, mutations>>

\* --------------------------------------------------------- ResolutionTracker
\* resolve_overlap that flips the entry of resolved_state
resolve_overlap_toggle(record_id) ==
    IF ~Truthy(record_id)
    THEN /\ last' = Step("resolve", 400)
         /\ UNCHANGED <<resolved_state, current_overlap_id, threads>>
    ELSE /\ state_lock = 0
         /\ resolved_state' = DictSet(resolved_state, record_id,
                                      ~DictGet(resolved_state, record_id, FALSE))
         /\ threads' = MarkResolved(threads, record_id)
         /\ current_overlap_id' = current_overlap_id
         /\ last' = Step("resolve", 500)

\* resolve_overlap(request) with request.json() = {"record_id": record_id}.
\* The function assigns current_overlap_id (line 320) without declaring it
\* global, so the name is local to the function and the comparison of line 319
\* raises UnboundLocalError: the write of line 317 has been made, the module's
\* current_overlap_id is neither read nor written, and the request ends 500.
resolve_overlap(record_id) ==
    IF ~Truthy(record_id)
    THEN /\ last' = Step("resolve", 400)
         /\ UNCHANGED <<resolved_state, current_overlap_id, threads>>
    ELSE /\ state_lock = 0
         /\ resolved_state' = DictSet(resolved_state, record_id, TRUE)
         /\ threads' = MarkResolved(threads, record_id)
         /\ current_overlap_id' = current_overlap_id
         /\ last' = Step("resolve", 500)

\* POST /api/resolve-overlap
Resolve(record_id) ==
    /\ app = "serving"
    /\ resolve_overlap(record_id)
    /\ UNCHANGED <<crossbeam_data, weights, INTERNAL_TEAM, processed_overlaps,
                   messaging_lock, state_lock, app, sent, mutations>>

\* ----------------------------------------------------------- EscalationRunner
\* a member the member loop does not skip: max_message >= 1 and both a
\* webhook_url and a channel_id
Sendable(member) ==
    /\ ~(member.max_message < 1)
    /\ ~(~Truthy(member.webhook_url) \/ ~Truthy(member.channel_id))

\* the position of the next member of the tier, from position `from` on, that
\* the member loop does not skip; 0 when the tier has none left
NextSendable(internal_members, from) ==
    LET S == {j \in from..Len(internal_members) : Sendable(internal_members[j])}
    IN  IF S = {} THEN 0 ELSE CHOOSE j \in S : \A k \in S : j <= k

\* the entry of `sent` for the message thread t is about to hand to Slack
SentEntry(t) ==
    [record_id |-> t.record_id, hierarchy_level |-> t.hierarchy_level,
     member |-> t.internal_members[t.m].name, m |-> t.m, idx |-> t.idx,
     message_type |-> IF t.idx = 0 THEN "main" ELSE "followup"]

\* send_messages_with_gap, lines 225-243: designations and max_hierarchy are
\* read from INTERNAL_TEAM before the messaging lock is taken
RunnerStart(i) ==
    /\ threads[i].pc = "start"
    /\ threads' = [threads EXCEPT
            ![i].pc = "lock",
            ![i].max_hierarchy =
                MaxOf({INTERNAL_TEAM[j].hierarchy : j \in 1..Len(INTERNAL_TEAM)})]
    /\ last' = Step("", "")
    /\ UNCHANGED <<crossbeam_data, weights, INTERNAL_TEAM, resolved_state,
                   processed_overlaps, current_overlap_id, messaging_lock, state_lock,
                   app, sent, mutations>>

\* the entry into the walk that does not wait for the messaging lock
RunnerLock_nowait(i) ==
    /\ threads[i].pc = "lock"
    /\ messaging_lock' = i
    /\ threads' = [threads EXCEPT ![i].pc = "tier", ![i].hierarchy_level = 1]
    /\ last' = Step("", "")
    /\ UNCHANGED <<crossbeam_data, weights, INTERNAL_TEAM, resolved_state,
                   processed_overlaps, current_overlap_id, state_lock, app,
                   sent, mutations>>

\* `with messaging_lock:` and the first evaluation of range(1, max_hierarchy + 1)
RunnerLock(i) ==
    /\ threads[i].pc = "lock"
    /\ messaging_lock = 0
    /\ messaging_lock' = i
    /\ threads' = [threads EXCEPT ![i].pc = "tier", ![i].hierarchy_level = 1]
    /\ last' = Step("", "")
    /\ UNCHANGED <<crossbeam_data, weights, INTERNAL_TEAM, resolved_state,
                   processed_overlaps, current_overlap_id, state_lock, app,
                   sent, mutations>>

\* the head of the tier loop that ends the walk at a tier without a message
RunnerTier_stop(i) ==
    LET t == threads[i]
        internal_members ==
            SelectSeq(INTERNAL_TEAM, LAMBDA member : member.hierarchy = t.hierarchy_level)
        first == NextSendable(internal_members, 1)
    IN  /\ t.pc = "tier"
        /\ threads' =
             IF t.hierarchy_level > t.max_hierarchy \/ first = 0
             THEN [threads EXCEPT ![i].pc = "finish", ![i].success = ""]
             ELSE [threads EXCEPT
                     ![i].pc = "check",
                     ![i].internal_members = internal_members,
                     ![i].m = first,
                     ![i].idx = 0,
                     ![i].success = "",
                     ![i].visited = Append(t.visited,
                         [hierarchy_level |-> t.hierarchy_level,
                          internal_members |-> internal_members])]
        /\ last' = Step("", "")
        /\ UNCHANGED <<crossbeam_data, weights, INTERNAL_TEAM, resolved_state,
                       processed_overlaps, current_overlap_id, messaging_lock, state_lock,
                       app, sent, mutations>>

\* the head of the tier loop: the loop is over, or the tier's members are read
\* from INTERNAL_TEAM and the member loop runs to its first message
RunnerTier(i) ==
    LET t == threads[i]
        internal_members ==
            SelectSeq(INTERNAL_TEAM, LAMBDA member : member.hierarchy = t.hierarchy_level)
        first == NextSendable(internal_members, 1)
    IN  /\ t.pc = "tier"
        /\ threads' =
             IF t.hierarchy_level > t.max_hierarchy
             THEN [threads EXCEPT ![i].pc = "finish", ![i].success = ""]
             ELSE IF first = 0
             THEN [threads EXCEPT
                     ![i].hierarchy_level = t.hierarchy_level + 1,
                     ![i].success = "",
                     ![i].visited = Append(t.visited,
                         [hierarchy_level |-> t.hierarchy_level,
                          internal_members |-> internal_members])]
             ELSE [threads EXCEPT
                     ![i].pc = "check",
                     ![i].internal_members = internal_members,
                     ![i].m = first,
                     ![i].idx = 0,
                     ![i].success = "",
                     ![i].visited = Append(t.visited,
                         [hierarchy_level |-> t.hierarchy_level,
                          internal_members |-> internal_members])]
        /\ last' = Step("", "")
        /\ UNCHANGED <<crossbeam_data, weights, INTERNAL_TEAM, resolved_state,
                       processed_overlaps, current_overlap_id, messaging_lock, state_lock,
                       app, sent, mutations>>

\* lines 269 and 295, the entry of `with state_lock:`: the thread waits until
\* the lock is free and takes it
RunnerAcquire(i) ==
    /\ threads[i].pc \in {"check", "finish"}
    /\ state_lock = 0
    /\ state_lock' = i
    /\ threads' = [threads EXCEPT ![i].success = ""]
    /\ last' = Step("", "")
    /\ UNCHANGED <<crossbeam_data, weights, INTERNAL_TEAM, resolved_state,
                   processed_overlaps, current_overlap_id, messaging_lock,
                   app, sent, mutations>>

\* the pre-send check that always lets the message through
RunnerCheck_noread(i) ==
    /\ threads[i].pc = "check"
    /\ state_lock = i
    /\ state_lock' = 0
    /\ threads' = [threads EXCEPT ![i].pc = "compose"]
    /\ last' = Step("", "")
    /\ UNCHANGED <<crossbeam_data, weights, INTERNAL_TEAM, resolved_state,
                   processed_overlaps, current_overlap_id, messaging_lock,
                   app, sent, mutations>>

\* the pre-send check that lets the message through with state_lock still held
RunnerCheck_hold(i) ==
    /\ threads[i].pc = "check"
    /\ state_lock = i
    /\ state_lock' = i
    /\ threads' = [threads EXCEPT ![i].pc = "compose"]
    /\ last' = Step("", "")
    /\ UNCHANGED <<crossbeam_data, weights, INTERNAL_TEAM, resolved_state,
                   processed_overlaps, current_overlap_id, messaging_lock,
                   app, sent, mutations>>

\* lines 270-273, the body of `with state_lock:` and its exit: a resolved
\* record ends the run, with both locks released by the return
RunnerCheck(i) ==
    LET t == threads[i]
    IN  /\ t.pc = "check"
        /\ state_lock = i
        /\ state_lock' = 0
        /\ IF DictGet(resolved_state, t.record_id, FALSE)
           THEN /\ current_overlap_id' = None
                /\ threads' = [threads EXCEPT ![i].pc = "done", ![i].exit = "resolved"]
                /\ messaging_lock' = 0
           ELSE /\ threads' = [threads EXCEPT ![i].pc = "compose"]
                /\ UNCHANGED <<current_overlap_id, messaging_lock>>
        /\ last' = Step("", "")
        /\ UNCHANGED <<crossbeam_data, weights, INTERNAL_TEAM, resolved_state,
                       processed_overlaps, app, sent, mutations>>

\* lines 275-286, gemini_generator.generate_overlap_message: the model's text,
\* the templated fallback after three failed attempts, or an exception raised
\* outside its try block (get_weights, the int() of a hierarchy key), which
\* ends the thread with the messaging lock released and nothing else undone
RunnerCompose(i) ==
    /\ threads[i].pc = "compose"
    /\ \E outcome \in {"generated", "fallback", "raise"} :
          IF outcome = "raise"
          THEN /\ threads' = [threads EXCEPT ![i].pc = "dead", ![i].exit = "raised"]
               /\ messaging_lock' = 0
          ELSE /\ threads' = [threads EXCEPT ![i].pc = "send", ![i].message = outcome]
               /\ UNCHANGED messaging_lock
    /\ last' = Step("", "")
    /\ UNCHANGED <<crossbeam_data, weights, INTERNAL_TEAM, resolved_state,
                   processed_overlaps, current_overlap_id, state_lock, app,
                   sent, mutations>>

\* lines 289-291, send_slack_message_with_button: True or False, both logged
RunnerSend(i) ==
    LET t == threads[i]
    IN  /\ t.pc = "send"
        /\ sent' = Append(sent, SentEntry(t))
        /\ \E success \in {"True", "False"} :
              threads' = [threads EXCEPT ![i].pc = "sleep", ![i].message = "",
                                         ![i].success = success,
                                         ![i].nsent = t.nsent + 1]
        /\ last' = Step("", "")
        /\ UNCHANGED <<crossbeam_data, weights, INTERNAL_TEAM, resolved_state,
                       processed_overlaps, current_overlap_id, messaging_lock, state_lock,
                       app, mutations>>

\* the walk after a message: after a send that failed the member's follow-ups
\* are dropped
RunnerSleep_failskip(i) ==
    LET t == threads[i]
        next == NextSendable(t.internal_members, t.m + 1)
    IN  /\ t.pc = "sleep"
        /\ threads' =
             IF t.idx + 1 < t.internal_members[t.m].max_message /\ t.success = "True"
             THEN [threads EXCEPT ![i].pc = "check", ![i].idx = t.idx + 1]
             ELSE IF next # 0
             THEN [threads EXCEPT ![i].pc = "check", ![i].m = next, ![i].idx = 0]
             ELSE [threads EXCEPT ![i].pc = "tier",
                                  ![i].hierarchy_level = t.hierarchy_level + 1]
        /\ last' = Step("", "")
        /\ UNCHANGED <<crossbeam_data, weights, INTERNAL_TEAM, resolved_state,
                       processed_overlaps, current_overlap_id, messaging_lock, state_lock,
                       app, sent, mutations>>

\* the walk after a message: a follow-up is composed without its pre-send check
RunnerSleep_nocheck(i) ==
    LET t == threads[i]
        next == NextSendable(t.internal_members, t.m + 1)
    IN  /\ t.pc = "sleep"
        /\ threads' =
             IF t.idx + 1 < t.internal_members[t.m].max_message
             THEN [threads EXCEPT ![i].pc = "compose", ![i].idx = t.idx + 1]
             ELSE IF next # 0
             THEN [threads EXCEPT ![i].pc = "check", ![i].m = next, ![i].idx = 0]
             ELSE [threads EXCEPT ![i].pc = "tier",
                                  ![i].hierarchy_level = t.hierarchy_level + 1]
        /\ last' = Step("", "")
        /\ UNCHANGED <<crossbeam_data, weights, INTERNAL_TEAM, resolved_state,
                       processed_overlaps, current_overlap_id, messaging_lock, state_lock,
                       app, sent, mutations>>

\* the walk after a message: one follow-up more than message_types holds
RunnerSleep_extra(i) ==
    LET t == threads[i]
        next == NextSendable(t.internal_members, t.m + 1)
    IN  /\ t.pc = "sleep"
        /\ threads' =
             IF t.idx + 1 <= t.internal_members[t.m].max_message
             THEN [threads EXCEPT ![i].pc = "check", ![i].idx = t.idx + 1]
             ELSE IF next # 0
             THEN [threads EXCEPT ![i].pc = "check", ![i].m = next, ![i].idx = 0]
             ELSE [threads EXCEPT ![i].pc = "tier",
                                  ![i].hierarchy_level = t.hierarchy_level + 1]
        /\ last' = Step("", "")
        /\ UNCHANGED <<crossbeam_data, weights, INTERNAL_TEAM, resolved_state,
                       processed_overlaps, current_overlap_id, messaging_lock, state_lock,
                       app, sent, mutations>>

\* the walk after a message: the member loop resumes at the member it is at
RunnerSleep_again(i) ==
    LET t == threads[i]
        next == NextSendable(t.internal_members, t.m)
    IN  /\ t.pc = "sleep"
        /\ threads' =
             IF t.idx + 1 < t.internal_members[t.m].max_message
             THEN [threads EXCEPT ![i].pc = "check", ![i].idx = t.idx + 1]
             ELSE IF next # 0 /\ t.nsent < 2 * t.internal_members[t.m].max_message
             THEN [threads EXCEPT ![i].pc = "check", ![i].m = next, ![i].idx = 0]
             ELSE [threads EXCEPT ![i].pc = "tier",
                                  ![i].hierarchy_level = t.hierarchy_level + 1]
        /\ last' = Step("", "")
        /\ UNCHANGED <<crossbeam_data, weights, INTERNAL_TEAM, resolved_state,
                       processed_overlaps, current_overlap_id, messaging_lock, state_lock,
                       app, sent, mutations>>

\* line 292, time.sleep(MESSAGE_DELAY_SECONDS), and the loop heads that follow
\* it: the next message of the member, else the next member of the tier that
\* is not skipped, else the next tier
RunnerSleep(i) ==
    LET t == threads[i]
        next == NextSendable(t.internal_members, t.m + 1)
    IN  /\ t.pc = "sleep"
        /\ threads' =
             IF t.idx + 1 < t.internal_members[t.m].max_message
             THEN [threads EXCEPT ![i].pc = "check", ![i].idx = t.idx + 1]
             ELSE IF next # 0
             THEN [threads EXCEPT ![i].pc = "check", ![i].m = next, ![i].idx = 0]
             ELSE [threads EXCEPT ![i].pc = "tier",
                                  ![i].hierarchy_level = t.hierarchy_level + 1]
        /\ last' = Step("", "")
        /\ UNCHANGED <<crossbeam_data, weights, INTERNAL_TEAM, resolved_state,
                       processed_overlaps, current_overlap_id, messaging_lock, state_lock,
                       app, sent, mutations>>

\* the end of the walk that leaves the messaging lock held
RunnerFinish_keeplock(i) ==
    /\ threads[i].pc = "finish"
    /\ state_lock = i
    /\ state_lock' = 0
    /\ current_overlap_id' = None
    /\ threads' = [threads EXCEPT ![i].pc = "done", ![i].exit = "exhausted"]
    /\ messaging_lock' = messaging_lock
    /\ last' = Step("", "")
    /\ UNCHANGED <<crossbeam_data, weights, INTERNAL_TEAM, resolved_state,
                   processed_overlaps, app, sent, mutations>>

\* line 296 and the exits of the two `with` blocks: every tier walked; the
\* slot is cleared under state_lock
RunnerFinish(i) ==
    /\ threads[i].pc = "finish"
    /\ state_lock = i
    /\ state_lock' = 0
    /\ current_overlap_id' = None
    /\ threads' = [threads EXCEPT ![i].pc = "done", ![i].exit = "exhausted"]
    /\ messaging_lock' = 0
    /\ last' = Step("", "")
    /\ UNCHANGED <<crossbeam_data, weights, INTERNAL_TEAM, resolved_state,
                   processed_overlaps, app, sent, mutations>>

\* ------------------------------------------------------- mutation handlers
\* the names of a roster
TeamNames(team) == {team[j].name : j \in 1..Len(team)}

\* a roster without its row i
RemoveAt(team, i) == [j \in 1..(Len(team) - 1) |-> IF j < i THEN team[j] ELSE team[j + 1]]

\* POST /api/internal-team: the row is inserted, INTERNAL_TEAM reloaded and
\* trigger_overlap_processing() called; a sqlite3.Error ends the request 500
add_internal_team_member(member) ==
    /\ app = "serving"
    /\ mutations < MaxMutations
    /\ \/ /\ member.name \notin TeamNames(INTERNAL_TEAM)
          /\ INTERNAL_TEAM' = Append(INTERNAL_TEAM, member)
          /\ mutations' = mutations + 1
          /\ trigger_overlap_processing(None, weights)
          /\ last' = Step("trigger", TriggerCase(None, weights))
       \/ /\ last' = Step("", "")
          /\ UNCHANGED <<INTERNAL_TEAM, mutations, resolved_state, processed_overlaps,
                         current_overlap_id, threads, sent>>
    /\ UNCHANGED <<crossbeam_data, weights, messaging_lock, state_lock, app>>

\* PUT /api/internal-team/{member_id}: the row is rewritten and INTERNAL_TEAM
\* reloaded; trigger_overlap_processing is not called
update_internal_team_member(i, member) ==
    /\ app = "serving"
    /\ mutations < MaxMutations
    /\ i \in 1..Len(INTERNAL_TEAM)
    /\ \/ /\ member.name \notin TeamNames(RemoveAt(INTERNAL_TEAM, i))
          /\ member # INTERNAL_TEAM[i]
          /\ INTERNAL_TEAM' = [INTERNAL_TEAM EXCEPT ![i] = member]
          /\ mutations' = mutations + 1
          /\ last' = Step("", "")
       \/ /\ last' = Step("", "")
          /\ UNCHANGED <<INTERNAL_TEAM, mutations>>
    /\ UNCHANGED <<crossbeam_data, weights, resolved_state, processed_overlaps,
                   current_overlap_id, messaging_lock, state_lock, threads, app, sent>>

\* DELETE /api/internal-team/{member_id}: the row is deleted, INTERNAL_TEAM
\* reloaded and trigger_overlap_processing() called
delete_internal_team_member(i) ==
    /\ app = "serving"
    /\ mutations < MaxMutations
    /\ i \in 1..Len(INTERNAL_TEAM)
    /\ \/ /\ INTERNAL_TEAM' = RemoveAt(INTERNAL_TEAM, i)
          /\ mutations' = mutations + 1
          /\ trigger_overlap_processing(None, weights)
          /\ last' = Step("trigger", TriggerCase(None, weights))
       \/ /\ last' = Step("", "")
          /\ UNCHANGED <<INTERNAL_TEAM, mutations, resolved_state, processed_overlaps,
                         current_overlap_id, threads, sent>>
    /\ UNCHANGED <<crossbeam_data, weights, messaging_lock, state_lock, app>>

\* POST /api/weights: the rows are replaced, then trigger_overlap_processing()
\* is called and scores with the new weights (a request that writes the rows
\* already stored is a plain trigger call)
save_weights(new) ==
    /\ app = "serving"
    /\ mutations < MaxMutations
    /\ \/ /\ new # weights
          /\ weights' = new
          /\ mutations' = mutations + 1
          /\ trigger_overlap_processing(None, new)
          /\ last' = Step("trigger", TriggerCase(None, new))
       \/ /\ last' = Step("", "")
          /\ UNCHANGED <<weights, mutations, resolved_state, processed_overlaps,
                         current_overlap_id, threads, sent>>
    /\ UNCHANGED <<crossbeam_data, INTERNAL_TEAM, messaging_lock, state_lock, app>>

\* ------------------------------------------------------------ specification
\* the module globals after import, before the lifespan handler has run
Init ==
    /\ crossbeam_data \in Snapshots
    /\ weights \in WeightSets
    /\ INTERNAL_TEAM \in Rosters
    /\ resolved_state = <<>>
    /\ processed_overlaps = <<>>
    /\ current_overlap_id = None
    /\ messaging_lock = 0
    /\ state_lock = 0
    /\ threads = <<>>
    /\ app = "init"
    /\ sent = <<>>
    /\ last = Step("", "")
    /\ mutations = 0

\* a request, a lifespan phase, or a step of a runner thread
Next ==
    \/ lifespan_startup
    \/ lifespan_startup_failed
    \/ lifespan_shutdown
    \/ \E exclude_id \in ExcludeIds : Trigger(exclude_id)
    \/ \E record_id \in ResolveIds : Resolve(record_id)
    \/ \E member \in MemberPool : add_internal_team_member(member)
    \/ \E i \in 1..2, member \in MemberPool : update_internal_team_member(i, member)
    \/ \E i \in 1..2 : delete_internal_team_member(i)
    \/ \E new \in WeightSets : save_weights(new)
    \/ \E i \in 1..Len(threads) : RunnerStart(i)
    \/ \E i \in 1..Len(threads) : RunnerLock(i)
    \/ \E i \in 1..Len(threads) : RunnerTier(i)
    \/ \E i \in 1..Len(threads) : RunnerAcquire(i)
    \/ \E i \in 1..Len(threads) : RunnerCheck(i)
    \/ \E i \in 1..Len(threads) : RunnerCompose(i)
    \/ \E i \in 1..Len(threads) : RunnerSend(i)
    \/ \E i \in 1..Len(threads) : RunnerSleep(i)
    \/ \E i \in 1..Len(threads) : RunnerFinish(i)

Spec == Init /\ [][Next]_vars

\* a snapshot in which the best record's id is the empty string, a value the
\* String primary key admits and that Python treats as false
FalsyIdSnapshots ==
    { << Rec("", NameZenith, FALSE, <<3, 3, 3, 3, 3>>, <<3, 3, 3>>),
         Rec("r2", NameAcme, FALSE, <<3, 3, 3, 3, 3>>, <<3, 3, 3>>) >> }

\* the roster load_internal_team_from_db() returned with it
FalsyIdRosters ==
    { << Member("X", 1, 3, "hook", "chan"), Member("Y", 2, 1, "hook", "chan") >> }

\* the module globals after import when load_crossbeam_data() returned such a
\* snapshot
FalsyIdInit ==
    /\ crossbeam_data \in FalsyIdSnapshots
    /\ weights \in WeightSets
    /\ INTERNAL_TEAM \in FalsyIdRosters
    /\ resolved_state = <<>>
    /\ processed_overlaps = <<>>
    /\ current_overlap_id = None
    /\ messaging_lock = 0
    /\ state_lock = 0
    /\ threads = <<>>
    /\ app = "init"
    /\ sent = <<>>
    /\ last = Step("", "")
    /\ mutations = 0

FalsyIdSpec == FalsyIdInit /\ [][Next]_vars

\* ------------------------------------------- the scoring engine and selector
\* attribute profiles in the declared ranges (opportunity 1..5, partner 0..5):
\* the five opportunity scores and the three partner scores of a record
Profiles ==
    { << <<1, 1, 1, 1, 1>>, <<0, 0, 0>> >>,
      << <<3, 3, 3, 3, 3>>, <<3, 3, 3>> >>,
      << <<5, 4, 4, 4, 4>>, <<3, 5, 5>> >>,
      << <<5, 5, 5, 5, 5>>, <<5, 5, 5>> >> }

\* the rows crossbeam_records may hold under a given id
ScoringPool(id) ==
    { Rec(id, name, logo, pr[1], pr[2]) :
        name \in {NameAcme, NameZenith}, logo \in BOOLEAN, pr \in Profiles }

\* rows whose id is None: record.get("id") is None for them
NoIdPool ==
    { Rec(None, NameZenith, logo, <<3, 3, 3, 3, 3>>, <<3, 3, 3>>) : logo \in BOOLEAN }

\* two-record snapshots of crossbeam_records
ScoringSnapshots ==
    { <<a, b>> : a \in ScoringPool("r1"), b \in ScoringPool("r2") \cup NoIdPool }

\* weight tables with every weight in [0, 1]: balanced, all zero, all one, a
\* single weight of 0.1, and partner weights only
ScoringWeightSets ==
    WeightSets \cup { Weights(100, 100, 100, 100, 100, 100, 100, 100),
                      Weights(10, 0, 0, 0, 0, 0, 0, 0),
                      Weights(0, 0, 0, 0, 0, 40, 30, 30) }

\* the two dictionaries as the handlers leave them: a processed record has a
\* resolved_state entry (lines 174-175, 211-212), and an entry of
\* resolved_state without one in processed_overlaps is True (line 317)
TrackerStates ==
    { tr \in [resolved : UNION {[S -> BOOLEAN] : S \in SUBSET {"r1", "r2"}},
              processed : UNION {[S -> {TRUE}] : S \in SUBSET {"r1", "r2"}}] :
        /\ DOMAIN tr.processed \subseteq DOMAIN tr.resolved
        /\ \A id \in DOMAIN tr.resolved : id \notin DOMAIN tr.processed => tr.resolved[id] }

\* a call of get_best_overlap(exclude_id): `last` keeps the argument and the
\* result
Select(exclude_id) ==
    /\ last' = Step("select", [exclude_id |-> exclude_id,
                               best |-> get_best_overlap(exclude_id, weights)])
    /\ UNCHANGED <<crossbeam_data, weights, INTERNAL_TEAM, resolved_state,
                   processed_overlaps, current_overlap_id, messaging_lock, state_lock,
                   threads, app, sent, mutations>>

\* a call of overlap_qualifier.should_process_overlap(record) for the record
\* at position i: `last` keeps the record and the result
Qualify(i) ==
    /\ i \in 1..Len(crossbeam_data)
    /\ last' = Step("qualify", [record |-> crossbeam_data[i],
                                result |-> should_process_overlap(crossbeam_data[i], weights)])
    /\ UNCHANGED <<crossbeam_data, weights, INTERNAL_TEAM, resolved_state,
                   processed_overlaps, current_overlap_id, messaging_lock, state_lock,
                   threads, app, sent, mutations>>

\* the record without the key k
Without(record, k) == [x \in (DOMAIN record) \ {k} |-> record[x]]

\* the record with None under the key k
WithNull(record, k) == [record EXCEPT ![k] = Null]

\* the records handed to should_process_overlap on their own: complete
\* ones, and the same with one scored attribute absent or None
ScoreInputs ==
    LET complete == { Rec("r1", NameAcme, logo, pr[1], pr[2]) :
                        logo \in BOOLEAN, pr \in Profiles }
        keys == OpportunityAttributes \cup PartnerAttributes
    IN  complete
        \cup { Without(r, k) : r \in complete, k \in keys }
        \cup { WithNull(r, k) : r \in complete, k \in keys }

\* a call of overlap_qualifier.should_process_overlap(record) for a record
\* that may be incomplete: `last` keeps the record, whether the call raised,
\* and <<result>> when it returned
Score(record) ==
    /\ last' = Step("score", [record |-> record,
                              raised |-> ScoreRaises(record),
                              result |-> IF ScoreRaises(record) THEN <<>>
                                         ELSE <<should_process_overlap(record, weights)>>])
    /\ UNCHANGED <<crossbeam_data, weights, INTERNAL_TEAM, resolved_state,
                   processed_overlaps, current_overlap_id, messaging_lock, state_lock,
                   threads, app, sent, mutations>>

\* the scoring engine and the selector on their own: any snapshot, weight
\* table and tracker state, no escalation active
ScoringInit ==
    /\ crossbeam_data \in ScoringSnapshots
    /\ weights \in ScoringWeightSets
    /\ \E tr \in TrackerStates : /\ resolved_state = tr.resolved
                                 /\ processed_overlaps = tr.processed
    /\ INTERNAL_TEAM = <<>>
    /\ current_overlap_id = None
    /\ messaging_lock = 0
    /\ state_lock = 0
    /\ threads = <<>>
    /\ app = "serving"
    /\ sent = <<>>
    /\ last = Step("", "")
    /\ mutations = 0

ScoringNext ==
    \/ \E exclude_id \in RecordIds \cup {None} : Select(exclude_id)
    \/ \E i \in 1..2 : Qualify(i)

ScoringSpec == ScoringInit /\ [][ScoringNext]_vars

\* the scoring engine on records that may be incomplete: any weight table, no
\* snapshot, no escalation
RecordScoringInit ==
    /\ crossbeam_data = <<>>
    /\ weights \in ScoringWeightSets
    /\ resolved_state = <<>>
    /\ processed_overlaps = <<>>
    /\ INTERNAL_TEAM = <<>>
    /\ current_overlap_id = None
    /\ messaging_lock = 0
    /\ state_lock = 0
    /\ threads = <<>>
    /\ app = "serving"
    /\ sent = <<>>
    /\ last = Step("", "")
    /\ mutations = 0

RecordScoringNext == \E record \in ScoreInputs : Score(record)

RecordScoringSpec == RecordScoringInit /\ [][RecordScoringNext]_vars

\* ------------------------------------------------------------------ claims
\* the threads that have been started and have not ended
AliveThreads == {i \in 1..Len(threads) : Alive(threads[i])}

C4_ResolveClearsActive ==
    [][ \A id \in ResolveIds \ {""} :
          Resolve(id) =>
             /\ DictGet(resolved_state', id, FALSE) = TRUE
             /\ current_overlap_id' = IF current_overlap_id = id THEN None
                                      ELSE current_overlap_id ]_vars

\* C5: once a resolve request for the active record has completed, the run of
\* that record sends at most one more message, the one whose pre-send check
\* had passed already, and when the run has ended current_overlap_id is no
\* longer that record.
C5_ResolveStopsRunner ==
    \A i \in 1..Len(threads) :
        LET t == threads[i]
        IN  t.rs_n # -1 =>
              /\ t.nsent <= t.rs_n + (IF t.rs_passed THEN 1 ELSE 0)
              /\ ~Alive(t) => current_overlap_id # t.record_id

\* C6: when a resolve request for the record of a run completes after the n-th
\* message has been sent and before the pre-send check of message n+1 has
\* passed, the run sends exactly n messages: it never composes or sends again,
\* it ends at a pre-send check or by exhaustion, and when it has ended
\* current_overlap_id is not that record and resolved(record) is true.
C6_ResolveBetweenMessages ==
    \A i \in 1..Len(threads) :
        LET t == threads[i]
        IN  (t.rs_n # -1 /\ ~t.rs_passed) =>
              /\ t.nsent = t.rs_n
              /\ t.pc \notin {"compose", "send", "dead"}
              /\ Len(SelectSeq(sent, LAMBDA e : e.record_id = t.record_id)) = t.rs_n
              /\ ~Alive(t) =>
                    /\ t.exit \in {"resolved", "exhausted"}
                    /\ current_overlap_id # t.record_id
                    /\ DictGet(resolved_state, t.record_id, FALSE) = TRUE

\* C6 witness: the scenario n = 1; the request arrived after X-main and before
\* the check of X-f1, and the run has ended at that check with one message
C6_Witness ==
    \E i \in 1..Len(threads) :
        LET t == threads[i]
        IN  /\ t.rs_n = 1
            /\ ~t.rs_passed
            /\ t.pc = "done"
            /\ t.exit = "resolved"
            /\ t.internal_members[t.m].max_message = 3
            /\ Len(sent) = 1
            /\ sent[1].message_type = "main"
            /\ current_overlap_id = None

\* the messages of the log that thread t handed to Slack for the member at
\* position j of tier hierarchy_level
MessagesTo(t, hierarchy_level, j) ==
    SelectSeq(sent, LAMBDA e : /\ e.record_id = t.record_id
                               /\ e.hierarchy_level = hierarchy_level
                               /\ e.m = j)

PositionLess(a, b) ==
    \/ a.hierarchy_level < b.hierarchy_level
    \/ a.hierarchy_level = b.hierarchy_level /\ a.m < b.m
    \/ a.hierarchy_level = b.hierarchy_level /\ a.m = b.m /\ a.idx < b.idx

\* C8: the messages of a run are sent in strictly ascending (tier, member
\* position, message index) order; and a run that ended by exhaustion after
\* walking tier 1 = [X, max_message 3] and tier 2 = [Y, max_message 1] has sent
\* exactly four messages: X-main, X-followup 1, X-followup 2, Y-main.
C8_AscendingOrder ==
    /\ \A n \in 1..(Len(sent) - 1) :
          sent[n].record_id = sent[n + 1].record_id
             => PositionLess(sent[n], sent[n + 1])
    /\ \A i \in 1..Len(threads) :
          LET t == threads[i]
          IN  (/\ t.exit = "exhausted"
               /\ Len(t.visited) = 2
               /\ t.visited[1].internal_members = <<Member("X", 1, 3, "hook", "chan")>>
               /\ t.visited[2].internal_members = <<Member("Y", 2, 1, "hook", "chan")>>)
              => /\ Len(sent) = 4
                 /\ \A n \in 1..3 : /\ sent[n].member = "X"
                                    /\ sent[n].hierarchy_level = 1
                                    /\ sent[n].idx = n - 1
                 /\ sent[1].message_type = "main"
                 /\ sent[2].message_type = "followup"
                 /\ sent[3].message_type = "followup"
                 /\ sent[4].member = "Y"
                 /\ sent[4].hierarchy_level = 2
                 /\ sent[4].message_type = "main"

\* C8 witness: the scenario's run has ended by exhaustion
C8_Witness ==
    \E i \in 1..Len(threads) :
        /\ threads[i].exit = "exhausted"
        /\ Len(threads[i].visited) = 2
        /\ threads[i].visited[1].internal_members = <<Member("X", 1, 3, "hook", "chan")>>
        /\ threads[i].visited[2].internal_members = <<Member("Y", 2, 1, "hook", "chan")>>
        /\ Len(sent) = 4

\* the record a thread that ended by exhaustion was started for stays
\* processed, and no other thread has been started for it
NeverSelectedAgain ==
    \A i \in 1..Len(threads) :
        threads[i].exit = "exhausted" =>
           /\ ~Alive(threads[i])
           /\ DictGet(processed_overlaps, threads[i].record_id, FALSE) = TRUE
           /\ \A j \in 1..Len(threads) : j # i => threads[j].record_id # threads[i].record_id

\* the step by which thread i leaves the tier loop with every tier walked
Exhausts(i) ==
    /\ i \in 1..Len(threads)
    /\ Len(threads') = Len(threads)
    /\ threads[i].pc = "finish"
    /\ threads'[i].exit = "exhausted"

\* C9: the step that ends a run by exhaustion sets current_overlap_id to None
\* and ends the thread, and leaves the record processed and, unless a resolve
\* request arrived during the run, not resolved; from then on the record
\* stays processed, and no call of trigger_overlap_processing selects it
\* again: a thread is only ever started for a record no thread was started
\* for before.
C9_ExhaustedNeverReselected ==
    /\ []NeverSelectedAgain
    /\ [][ /\ \A i \in 1..Len(threads) :
                Exhausts(i) =>
                   /\ current_overlap_id' = None
                   /\ ~Alive(threads'[i])
                   /\ DictGet(processed_overlaps', threads[i].record_id, FALSE) = TRUE
                   /\ threads[i].rs_n = -1 =>
                         DictGet(resolved_state', threads[i].record_id, TRUE) = FALSE
           /\ Len(threads') > Len(threads) =>
                \A i \in 1..Len(threads) :
                   threads[i].record_id # threads'[Len(threads')].record_id ]_vars

\* C9 witness: a run ended by exhaustion without a resolve request, its record
\* is processed and not resolved, and a later trigger call has started the
\* run of another record
C9_Witness ==
    \E i, j \in 1..Len(threads) :
        /\ i < j
        /\ threads[i].exit = "exhausted"
        /\ DictGet(processed_overlaps, threads[i].record_id, FALSE) = TRUE
        /\ DictGet(resolved_state, threads[i].record_id, TRUE) = FALSE
        /\ last = Step("trigger", "started")
        /\ threads[j].pc = "start"
        /\ threads[j].record_id # threads[i].record_id

\* the record at position i of the snapshot is eligible for a call of the
\* selector with exclude_id
EligibleAt(i, exclude_id) == Eligible(crossbeam_data[i], exclude_id, weights)

\* the positions of the snapshot whose record has the id of the entry returned
ReturnedAt(best) == {i \in 1..Len(crossbeam_data) : crossbeam_data[i].id = best[1].record_id}

\* C10: for every snapshot, every state of resolved_state and
\* processed_overlaps and every exclude_id, a record that a call of the
\* selector returns is not exclude_id, is not resolved and is not processed.
C10_SelectorEligibility ==
    (last.op = "select" /\ last.status.best # <<>>) =>
       LET exclude_id == last.status.exclude_id
           record_id == last.status.best[1].record_id
       IN  /\ record_id # exclude_id
           /\ DictGet(resolved_state, record_id, FALSE) = FALSE
           /\ DictGet(processed_overlaps, record_id, FALSE) = FALSE
           /\ ReturnedAt(last.status.best) # {}

\* C10 witness: the record that ranks first has been processed, and the call
\* made with no exclude_id returned the other record
C10_Witness ==
    /\ last.op = "select"
    /\ last.status.exclude_id = None
    /\ crossbeam_data[1].logo_potential /\ ~crossbeam_data[2].logo_potential
    /\ DictGet(processed_overlaps, "r1", FALSE)
    /\ "r2" \notin DOMAIN resolved_state
    /\ last.status.best # <<>>
    /\ last.status.best[1].record_id = "r2"

\* C11: a call of the selector made while at least one eligible record has
\* logo_potential = TRUE returns a record with logo_potential = TRUE, whatever
\* the scores of the eligible records without it.
C11_LogoRanksFirst ==
    last.op = "select" =>
       LET exclude_id == last.status.exclude_id
           best == last.status.best
       IN  (\E i \in 1..Len(crossbeam_data) :
               EligibleAt(i, exclude_id) /\ crossbeam_data[i].logo_potential)
           => /\ best # <<>>
              /\ best[1].logo_potential
              /\ \A i \in ReturnedAt(best) : crossbeam_data[i].logo_potential

\* C11 witness: the scenario; A scores 4.2 without logo potential, B has logo
\* potential and lower attribute scores, both are eligible and B was returned
C11_Witness ==
    /\ last.op = "select"
    /\ last.status.exclude_id = None
    /\ EligibleAt(1, None) /\ EligibleAt(2, None)
    /\ ~crossbeam_data[1].logo_potential
    /\ calculate_priority_score(crossbeam_data[1], weights).priority_score = 840
    /\ crossbeam_data[2].logo_potential
    /\ crossbeam_data[2].opportunity_size_score = 3
    /\ last.status.best # <<>>
    /\ last.status.best[1].record_id = "r2"

C13_ScoreRange ==
    last.op = "qualify" =>
       /\ 0 <= last.status.result.context.priority_score
       /\ last.status.result.context.priority_score <= 5 * 200

\* C14: for a record with logo_potential = TRUE the scoring engine returns
\* priority_score 5 (1000 at the scale of the model) and priority_level
\* "LOGO POTENTIAL", whatever the attribute scores and the weights, and the
\* record qualifies.
C14_LogoOverride ==
    (last.op = "qualify" /\ last.status.record.logo_potential) =>
       /\ last.status.result.context.priority_score = 5 * 200
       /\ last.status.result.context.priority_level = "LOGO POTENTIAL"
       /\ last.status.result.context.logo_potential
       /\ last.status.result.should_process

\* C14 witness: a record with logo potential and the lowest attribute scores
\* was scored under weights that give a record without it a score of 12.0
C14_Witness ==
    /\ last.op = "qualify"
    /\ last.status.record.logo_potential
    /\ last.status.record.opportunity_size_score = 1
    /\ last.status.record.stickiness_score = 0
    /\ weights = Weights(100, 100, 100, 100, 100, 100, 100, 100)
    /\ last.status.result.context.priority_score = 1000

\* the record with this id qualifies under weight table w: its score is at
\* least 1.0 or it has logo potential
Qualifies(record_id, w) ==
    \E i \in 1..Len(crossbeam_data) :
        /\ crossbeam_data[i].id = record_id
        /\ \/ calculate_priority_score(crossbeam_data[i], w).priority_score >= 200
           \/ crossbeam_data[i].logo_potential

\* C15: a call of trigger_overlap_processing or of lifespan selects, and
\* starts a thread for, only a record with priority_score >= 1.0 or with logo
\* potential under the weights the call reads: a record without logo
\* potential and with a score below 1.0 is neither selected nor escalated.
C15_OnlyQualifyingEscalated ==
    [][ Len(threads') > Len(threads) =>
          /\ Len(threads') = Len(threads) + 1
          /\ Qualifies(threads'[Len(threads')].record_id, weights') ]_vars

\* C15 witness: a record without logo potential and with score 0.8 is neither
\* resolved nor processed, every other record is processed, and a trigger
\* call made with no escalation active has found no candidate
C15_Witness ==
    /\ last = Step("trigger", "empty")
    /\ weights = Weights(20, 20, 20, 20, 20, 40, 30, 30)
    /\ Len(crossbeam_data) = 3
    /\ calculate_priority_score(crossbeam_data[3], weights).priority_score = 160
    /\ ~DictGet(resolved_state, "r3", FALSE)
    /\ ~DictGet(processed_overlaps, "r3", FALSE)
    /\ DictGet(processed_overlaps, "r1", FALSE)
    /\ DictGet(processed_overlaps, "r2", FALSE)
    /\ Len(threads) = 2

\* C16: a resolve request for a record id served right after a resolve
\* request for the same id (after which resolved_state[id] is True, or which
\* was refused for its missing id) changes neither resolved_state nor
\* processed_overlaps nor current_overlap_id: twice leaves what once leaves.
C16_ResolveIdempotent ==
    [][ \A id \in ResolveIds :
          (/\ last.op = "resolve"
           /\ IF Truthy(id) THEN last.status = 500 /\ DictGet(resolved_state, id, FALSE)
                            ELSE last.status = 400
           /\ Resolve(id))
          => UNCHANGED <<resolved_state, processed_overlaps,
                         current_overlap_id>> ]_vars

\* C16 witness: a resolve request for the active record has been served while
\* its run is under way, and the next request for it can be served
C16_Witness ==
    /\ last = Step("resolve", 500)
    /\ Truthy(current_overlap_id)
    /\ DictGet(resolved_state, current_overlap_id, FALSE)
    /\ app = "serving"
    /\ \E i \in 1..Len(threads) :
          /\ threads[i].record_id = current_overlap_id
          /\ threads[i].pc = "sleep"
          /\ threads[i].rs_n = 1
          /\ threads[i].nsent = 1

\* C17: a resolve request for an id that is not the active escalation and has
\* no entry in resolved_state or processed_overlaps is answered without error
\* (status 200) and leaves resolved_state[id] = TRUE, the entries of the other
\* records, processed_overlaps and current_overlap_id unchanged.
C17_ResolveUnknownSucceeds ==
    [][ \A id \in RecordIds :
          (/\ Resolve(id)
           /\ id # current_overlap_id
           /\ id \notin DOMAIN resolved_state
           /\ id \notin DOMAIN processed_overlaps)
          => /\ last'.status = 200
             /\ resolved_state' = DictSet(resolved_state, id, TRUE)
             /\ UNCHANGED <<processed_overlaps, current_overlap_id>> ]_vars

\* what the three writes of a start leave, as every holder of state_lock sees
\* it: the active record and the record of every thread are processed and
\* have an entry in resolved_state, so has every processed record, and while
\* the application serves the record of a running thread is the active one
StartWritesTogether ==
    /\ Truthy(current_overlap_id) =>
          /\ DictGet(processed_overlaps, current_overlap_id, FALSE) = TRUE
          /\ current_overlap_id \in DOMAIN resolved_state
    /\ \A id \in DOMAIN processed_overlaps :
          processed_overlaps[id] = TRUE /\ id \in DOMAIN resolved_state
    /\ \A i \in 1..Len(threads) :
          /\ DictGet(processed_overlaps, threads[i].record_id, FALSE) = TRUE
          /\ (Alive(threads[i]) /\ app # "stopped")
                => current_overlap_id = threads[i].record_id

\* C18: the step of trigger_overlap_processing or lifespan that finds a
\* candidate makes the writes resolved_state[id] = False,
\* processed_overlaps[id] = True and current_overlap_id = id together, under
\* state_lock, and starts the thread of id with them: the thread has not run
\* yet, and no step of a trigger, a resolve or a runner, all of which take
\* state_lock, sees a state with only some of the three.
C18_StartWritesAtomic ==
    /\ []StartWritesTogether
    /\ [][ Len(threads') > Len(threads) =>
             LET id == threads'[Len(threads')].record_id
             IN  /\ Len(threads') = Len(threads) + 1
                 /\ threads'[Len(threads')].pc = "start"
                 /\ ~Truthy(current_overlap_id)
                 /\ current_overlap_id' = id
                 /\ DictGet(resolved_state', id, TRUE) = FALSE
                 /\ DictGet(processed_overlaps', id, FALSE) = TRUE
                 /\ ~DictGet(processed_overlaps, id, FALSE) ]_vars

\* C18 witness: lifespan has found a candidate; the three writes are made and
\* the thread has been started and has not run
C18_Witness ==
    /\ app = "serving"
    /\ last.op = ""
    /\ Len(threads) = 1
    /\ threads[1].pc = "start"
    /\ current_overlap_id = threads[1].record_id
    /\ resolved_state = DictSet(<<>>, threads[1].record_id, FALSE)
    /\ processed_overlaps = DictSet(<<>>, threads[1].record_id, TRUE)

\* C19: a call of trigger_overlap_processing made with current_overlap_id
\* unset and no eligible record leaves current_overlap_id unset, changes no
\* entry of resolved_state or processed_overlaps and starts no thread.
C19_TriggerEmptyNoop ==
    [][ (/\ last'.op = "trigger"
         /\ ~Truthy(current_overlap_id)
         /\ \A i \in 1..Len(crossbeam_data) :
               ~Eligible(crossbeam_data[i], None, weights'))
        => /\ last'.status = "empty"
           /\ current_overlap_id' = None
           /\ UNCHANGED <<current_overlap_id, resolved_state, processed_overlaps,
                          threads, messaging_lock, state_lock, sent>> ]_vars

\* C19 witness: a trigger call found no escalation active and no candidate
\* after the only record that qualifies had been resolved before any run
C19_Witness ==
    /\ last = Step("trigger", "empty")
    /\ current_overlap_id = None
    /\ threads = <<>>
    /\ processed_overlaps = <<>>
    /\ \E i \in 1..Len(crossbeam_data) :
          /\ should_process_overlap(crossbeam_data[i], weights).should_process
          /\ DictGet(resolved_state, crossbeam_data[i].id, FALSE)

\* C20: a run that has stopped does not leave the active slot set: while the
\* application serves, a current_overlap_id that is set is the record of a
\* thread that is still running, whatever the composer and the notifier
\* returned or raised.
C20_StoppedRunClearsSlot ==
    (app = "serving" /\ Truthy(current_overlap_id)) =>
       \E i \in 1..Len(threads) :
          /\ Alive(threads[i])
          /\ threads[i].record_id = current_overlap_id

\* C21: in every step, for every running thread: the thread comes to compose
\* a message only by the step that reads resolved_state[record_id] as false
\* while the thread holds state_lock, and that step sends nothing; it comes to
\* the send only from the composer; the count of its messages grows only by
\* the send of that one message, after which the thread is in the delay, so
\* that no two sends share a check; the thread ends as resolved only by the
\* step of the check; and no step, a resolve request included, takes a thread
\* out of the composer other than to the send (or by the composer raising),
\* or out of the send other than to the delay.
C21_CheckBeforeEverySend ==
    [][ \A i \in 1..Len(threads) :
          LET t == threads[i]
              u == threads'[i]
          IN  Alive(t) =>
                /\ (u.pc = "compose" /\ t.pc # "compose")
                      => /\ t.pc = "check"
                         /\ state_lock = i
                         /\ ~DictGet(resolved_state, t.record_id, FALSE)
                         /\ sent' = sent
                /\ (u.pc = "send" /\ t.pc # "send")
                      => t.pc = "compose" /\ sent' = sent
                /\ (u.nsent # t.nsent \/ sent' # sent)
                      => /\ t.pc = "send"
                         /\ u.pc = "sleep"
                         /\ u.nsent = t.nsent + 1
                         /\ sent' = Append(sent, SentEntry(t))
                /\ (u.exit = "resolved")
                      => /\ t.pc = "check"
                         /\ state_lock = i
                         /\ DictGet(resolved_state, t.record_id, FALSE)
                /\ t.pc = "compose" => u.pc \in {"compose", "send", "dead"}
                /\ t.pc = "send" => u.pc \in {"send", "sleep"}
                /\ t.pc = "sleep" => u.pc \in {"sleep", "check", "tier"} ]_vars

\* C21 witness: a resolve request for the record of a run was served after
\* the pre-send check of its second message had passed; the message has been
\* sent all the same and the run is in the delay that follows it
C21_Witness ==
    \E i \in 1..Len(threads) :
        LET t == threads[i]
        IN  /\ t.pc = "sleep"
            /\ t.rs_n = 1
            /\ t.rs_passed
            /\ t.nsent = 2
            /\ DictGet(resolved_state, t.record_id, FALSE)
            /\ Len(sent) = 2

\* a thread is in the composer, in the notifier or in the inter-message delay
Blocked(t) == t.pc \in {"compose", "send", "sleep"}

\* while thread i is in the composer, in the notifier or in the delay it does
\* not hold state_lock, and while the application serves a trigger call and a
\* resolve request for any id can be served at once
RunnerHoldsNoLock ==
    \A i \in 1..Len(threads) :
        Blocked(threads[i]) =>
           /\ state_lock # i
           /\ app = "serving" =>
                 /\ state_lock = 0
                 /\ \A exclude_id \in ExcludeIds : ENABLED Trigger(exclude_id)
                 /\ \A record_id \in ResolveIds : ENABLED Resolve(record_id)

\* C22: the runner holds state_lock in none of the composer, the notifier and
\* the delay, so that a trigger call and a resolve request are served while
\* it is in any of them, however long it stays there; and the step of a
\* trigger call that starts a run ends with state_lock released and the
\* thread it started not yet run.
C22_RunnerBlocksNoOne ==
    /\ []RunnerHoldsNoLock
    /\ [][ (last'.op = "trigger" /\ last'.status = "started")
             => /\ state_lock' = 0
                /\ threads'[Len(threads')].pc = "start" ]_vars

\* C22 witness: a trigger call has been served and has returned while the
\* run of the active record is in the notifier
C22_Witness ==
    /\ last = Step("trigger", "active")
    /\ state_lock = 0
    /\ \E i \in 1..Len(threads) :
          /\ threads[i].pc = "send"
          /\ current_overlap_id = threads[i].record_id

\* C23: no step reads resolved_state, processed_overlaps or
\* current_overlap_id for a decision, or writes one of them, outside a
\* `with state_lock:` block, the steps of lifespan included; and a runner
\* thread leaves its pre-send check, and makes its last write of
\* current_overlap_id, only while it holds state_lock.
C23_TrackersUnderLock ==
    /\ [](last.unlocked = {})
    /\ [][ \A i \in 1..Len(threads) :
             (/\ threads[i].pc \in {"check", "finish"}
              /\ threads'[i].pc # threads[i].pc)
             => state_lock = i ]_vars

\* the messages scheduled in the tier thread t walks that come after the one
\* it is at: <<position of the member, message index>> for every member of
\* the tier that is not skipped and every index below its max_message
ScheduledAfter(t) ==
    { p \in UNION { { <<j, k>> : k \in 0..(t.internal_members[j].max_message - 1) } :
                      j \in { j \in 1..Len(t.internal_members) :
                                Sendable(t.internal_members[j]) } } :
        p[1] > t.m \/ (p[1] = t.m /\ p[2] > t.idx) }

\* the first of them, in (member, index) order
NextScheduled(t) ==
    CHOOSE p \in ScheduledAfter(t) :
        \A q \in ScheduledAfter(t) : p[1] < q[1] \/ (p[1] = q[1] /\ p[2] <= q[2])

\* C24: the step that hands a message to the notifier leaves the thread in
\* the inter-message delay whether the notifier reports success or failure,
\* and the step that ends the delay takes the thread to the pre-send check of
\* the next scheduled message of the tier, or to the next tier when the tier
\* has none left, whatever the notifier reported.
C24_FailureKeepsWalk ==
    [][ \A i \in 1..Len(threads) :
          LET t == threads[i]
              u == threads'[i]
          IN  /\ (t.pc = "send" /\ u.pc # "send")
                    => /\ u.pc = "sleep"
                       /\ u.success \in {"True", "False"}
                       /\ u.nsent = t.nsent + 1
                       /\ sent' = Append(sent, SentEntry(t))
              /\ (t.pc = "sleep" /\ u.pc # "sleep")
                    => IF ScheduledAfter(t) # {}
                       THEN /\ u.pc = "check"
                            /\ u.hierarchy_level = t.hierarchy_level
                            /\ <<u.m, u.idx>> = NextScheduled(t)
                       ELSE /\ u.pc = "tier"
                            /\ u.hierarchy_level = t.hierarchy_level + 1 ]_vars

\* C24 witness: the notifier reported failure for the first message of a
\* member with max_message 3; the thread has waited the delay and is at the
\* pre-send check of the member's first follow-up
C24_Witness ==
    \E i \in 1..Len(threads) :
        LET t == threads[i]
        IN  /\ t.pc = "check"
            /\ t.success = "False"
            /\ t.idx = 1
            /\ t.nsent = 1
            /\ t.internal_members[t.m].max_message = 3
            /\ ~DictGet(resolved_state, t.record_id, FALSE)

\* C25: the composer never ends or holds up the walk: every step that takes a
\* thread out of the composer takes it to the notifier with a text, the
\* model's or the templated fallback, and leaves the thread running with the
\* messaging lock held.
C25_ComposerNeverAborts ==
    [][ \A i \in 1..Len(threads) :
          LET t == threads[i]
              u == threads'[i]
          IN  (t.pc = "compose" /\ u.pc # "compose")
                => /\ u.pc = "send"
                   /\ u.message \in {"generated", "fallback"}
                   /\ Alive(u)
                   /\ messaging_lock' = i ]_vars

\* the tier at position v of the walk of thread t contributes no message by
\* itself: it has no member, or a member with max_message < 1
Skips(t, v) ==
    \/ t.visited[v].internal_members = <<>>
    \/ \E j \in 1..Len(t.visited[v].internal_members) :
          t.visited[v].internal_members[j].max_message < 1

SectionAttributes(section) ==
    IF section = "opportunity"
    THEN { <<"opportunity_size_score", "opportunity_size">>,
           <<"relationship_status_score", "relationship_status">>,
           <<"engagement_score_score", "engagement_score">>,
           <<"opportunity_stage_score", "opportunity_stage">>,
           <<"winnability_score", "winnability">> }
    ELSE { <<"relationship_strength_score", "relationship_strength_score">>,
           <<"recent_deal_support_score", "recent_deal_support">>,
           <<"stickiness_score", "stickiness_score">> }

\* the sum of attribute x weight over a set of attributes of a section (x 100)
RECURSIVE WeightedSum(_, _, _, _)
WeightedSum(record, w, section, attrs) ==
    IF attrs = {} THEN 0
    ELSE LET a == CHOOSE a \in attrs : TRUE
         IN  record[a[1]] * w[section][a[2]]
             + WeightedSum(record, w, section, attrs \ {a})

\* C27: for a record with logo_potential = FALSE the scoring engine returns
\* priority_level "SCORED" and, with each section score the sum of attribute
\* x weight over the attributes of the section, a priority_score that is the
\* average of the two section scores when both are non-zero, the non-zero
\* one when exactly one is, and 0 when both are zero (at the scale of the
\* model: 200 x the score, 100 x a section score).
C27_ScoredAverage ==
    (last.op = "qualify" /\ ~last.status.record.logo_potential) =>
       LET record == last.status.record
           o == WeightedSum(record, weights, "opportunity",
                            SectionAttributes("opportunity"))
           pa == WeightedSum(record, weights, "partner",
                             SectionAttributes("partner"))
           context == last.status.result.context
       IN  /\ context.priority_level = "SCORED"
           /\ ~context.logo_potential
           /\ (o # 0 /\ pa # 0) => context.priority_score = o + pa
           /\ (o # 0 /\ pa = 0) => context.priority_score = 2 * o
           /\ (o = 0 /\ pa # 0) => context.priority_score = 2 * pa
           /\ (o = 0 /\ pa = 0) => context.priority_score = 0

\* C27 witness: a record without logo potential whose opportunity score is
\* 1.0 and whose partner score is 0 has been scored 1.0, not 0.5
C27_Witness ==
    /\ last.op = "qualify"
    /\ ~last.status.record.logo_potential
    /\ opportunity_score(last.status.record, weights) = 100
    /\ partner_score(last.status.record, weights) = 0
    /\ last.status.result.context.priority_score = 200
    /\ last.status.result.should_process

\* the record at position i of the snapshot qualifies (score >= 1.0 or logo
\* potential) and is neither exclude_id nor resolved nor processed
QualifyingAndEligible(i, exclude_id) ==
    LET record == crossbeam_data[i]
    IN  /\ \/ calculate_priority_score(record, weights).priority_score >= 200
           \/ record.logo_potential
        /\ record.id # exclude_id
        /\ DictGet(resolved_state, record.id, FALSE) = FALSE
        /\ DictGet(processed_overlaps, record.id, FALSE) = FALSE

\* what a call of the selector returned: None exactly when no record of the
\* snapshot is qualifying and eligible, else one entry, that of one record of
\* the snapshot, which is qualifying and eligible
SelectorResult ==
    last.op = "select" =>
       LET exclude_id == last.status.exclude_id
           best == last.status.best
       IN  /\ (best = <<>>) <=>
                 (\A i \in 1..Len(crossbeam_data) : ~QualifyingAndEligible(i, exclude_id))
           /\ best # <<>> =>
                 /\ Len(best) = 1
                 /\ Cardinality(ReturnedAt(best)) = 1
                 /\ \A i \in ReturnedAt(best) :
                       /\ QualifyingAndEligible(i, exclude_id)
                       /\ best[1].record_name = crossbeam_data[i].opportunity_name

\* C28: a call of the selector leaves current_overlap_id, resolved_state,
\* processed_overlaps and the snapshot as they were, and it returns None
\* exactly when no record is both qualifying and eligible, and exactly one
\* record otherwise.
C28_SelectorReadOnly ==
    /\ []SelectorResult
    /\ [][ last'.op = "select"
             => UNCHANGED <<crossbeam_data, resolved_state, processed_overlaps,
                            current_overlap_id, weights, threads>> ]_vars

\* C28 witness: both records qualify, one is processed and the other is
\* resolved, and the call made with no exclude_id returned None
C28_Witness ==
    /\ last.op = "select"
    /\ last.status.exclude_id = None
    /\ last.status.best = <<>>
    /\ \A i \in 1..2 : should_process_overlap(crossbeam_data[i], weights).should_process
    /\ DictGet(processed_overlaps, "r1", FALSE)
    /\ DictGet(resolved_state, "r2", FALSE)
    /\ ~DictGet(processed_overlaps, "r2", FALSE)

Zeroed(record) ==
    LET keys == OpportunityAttributes \cup PartnerAttributes
    IN  [k \in (DOMAIN record) \cup keys |->
            IF k \in keys
            THEN (IF Attr(record, k) = Null THEN 0 ELSE Attr(record, k))
            ELSE record[k]]

\* C30: scoring a record in which an attribute is missing (key absent or value
\* null) never raises, and gives the result of scoring the same record with
\* that attribute equal to 0
C30_MissingScoresAsZero ==
    last.op = "score" =>
        /\ ~last.status.raised
        /\ last.status.result =
              <<should_process_overlap(Zeroed(last.status.record), weights)>>

\* a step that is one of the events after which the controller is to look for
\* work: a team member added, updated or deleted or the weights saved (the
\* rows changed), a record resolved, or the startup of the process
MutationEvent ==
    \/ mutations' = mutations + 1
    \/ last'.op = "resolve" /\ last'.status # 400
    \/ app = "init" /\ app' = "serving"

\* C31: each mutation event (member added, updated, deleted; weights saved; a
\* record resolved) and the startup invokes trigger: after the step, either an
\* escalation is active or no eligible candidate exists
C31_EveryMutationTriggers ==
    [][MutationEvent =>
          \/ Truthy(current_overlap_id')
          \/ get_best_overlap(None, weights)' = <<>>]_vars

\* thread i returns in the step, on observing resolved or on exhaustion
Terminates(i) ==
    /\ i \in 1..Len(threads)
    /\ Alive(threads[i])
    /\ threads'[i].pc = "done"

\* C32: a runner only clears its own slot: when the runner of a record
\* terminates while current_overlap_id holds a different record, the slot
\* keeps that record
C32_RunnerClearsOwnSlot ==
    [][\A i \in 1..Len(threads) :
          (/\ Terminates(i)
           /\ Truthy(current_overlap_id)
           /\ current_overlap_id # threads[i].record_id)
          => current_overlap_id' = current_overlap_id]_vars

\* C33: while a runner that has been started has not terminated and its
\* record is not resolved, current_overlap_id is that record: nothing clears
\* the slot under a run that is still walking the hierarchy
C33_SlotHeldWhileWalking ==
    \A i \in 1..Len(threads) :
        (/\ Alive(threads[i])
         /\ ~DictGet(resolved_state, threads[i].record_id, FALSE))
        => current_overlap_id = threads[i].record_id

\* the positions of a runner between `with messaging_lock:` and its exit
WalkPositions == {"tier", "check", "compose", "send", "sleep", "finish"}

\* C34: messages of two records never interleave: a runner is in its walk only
\* while it holds the messaging lock, and between two messages of one run no
\* message of another run is sent, also when two runner threads exist at once
C34_NoInterleaving ==
    /\ \A i \in 1..Len(threads) :
          threads[i].pc \in WalkPositions => messaging_lock = i
    /\ \A a, b, c \in 1..Len(sent) :
          (a < b /\ b < c /\ sent[a].record_id = sent[c].record_id)
          => sent[b].record_id = sent[a].record_id

\* two runs existed at once and both have sent: the messages of the first,
\* then those of the second, whose thread is still walking
C34_Witness ==
    /\ Len(sent) >= 3
    /\ sent[1].record_id # sent[Len(sent)].record_id
    /\ sent[1].record_id = sent[2].record_id
    /\ \E i, j \in 1..Len(threads) :
          /\ threads[i].record_id = sent[1].record_id
          /\ threads[i].pc = "done"
          /\ threads[j].record_id = sent[Len(sent)].record_id
          /\ threads[j].pc = "sleep"
          /\ messaging_lock = j

\* no two of the threads ever started were started for the same record
OneRunPerRecord ==
    \A i, j \in 1..Len(threads) :
        i # j => threads[i].record_id # threads[j].record_id

\* C35: processed is monotonic and each record is escalated at most once: an
\* entry of processed_overlaps that is True stays True, a thread is only
\* started for a record that is not processed, and no two threads are ever
\* started for one record
C35_ProcessedOnce ==
    /\ []OneRunPerRecord
    /\ [][/\ \A id \in DOMAIN processed_overlaps :
                processed_overlaps[id] =>
                   /\ id \in DOMAIN processed_overlaps'
                   /\ processed_overlaps'[id]
          /\ Len(threads') > Len(threads) =>
                /\ Len(threads') = Len(threads) + 1
                /\ ~DictGet(processed_overlaps, threads'[Len(threads')].record_id, FALSE)
                /\ DictGet(processed_overlaps', threads'[Len(threads')].record_id, FALSE)]_vars

\* the run of a record has ended by exhaustion, the record is unresolved and
\* processed, and the trigger call that followed started another record
C35_Witness ==
    /\ Len(threads) = 2
    /\ threads[1].exit = "exhausted"
    /\ DictGet(resolved_state, threads[1].record_id, TRUE) = FALSE
    /\ DictGet(processed_overlaps, threads[1].record_id, FALSE)
    /\ threads[2].pc = "start"
    /\ last = Step("trigger", "started")

\* C36: resolved is monotonic: an entry of resolved_state that is True stays
\* True through every trigger, startup and runner step, a thread is only
\* started for a record that is not resolved, and a message is only sent by
\* the thread of its record
C36_ResolvedMonotonic ==
    [][/\ \A id \in DOMAIN resolved_state :
             resolved_state[id] =>
                /\ id \in DOMAIN resolved_state'
                /\ resolved_state'[id]
       /\ Len(threads') > Len(threads) =>
             ~DictGet(resolved_state, threads'[Len(threads')].record_id, FALSE)
       /\ Len(sent') > Len(sent) =>
             \E i \in 1..Len(threads) :
                /\ threads[i].pc = "send"
                /\ threads[i].record_id = sent'[Len(sent')].record_id]_vars

\* a qualifying record was resolved before it was ever selected: the trigger
\* call made with the slot free finds no candidate and starts nothing for it
C36_Witness ==
    /\ last = Step("trigger", "empty")
    /\ ~Truthy(current_overlap_id)
    /\ \E k \in 1..Len(crossbeam_data) :
          /\ Qualifies(crossbeam_data[k].id, weights)
          /\ DictGet(resolved_state, crossbeam_data[k].id, FALSE)
          /\ crossbeam_data[k].id \notin DOMAIN processed_overlaps
          /\ \A i \in 1..Len(threads) : threads[i].record_id # crossbeam_data[k].id

\* a step of runner thread i
RunnerStep(i) ==
    \/ RunnerStart(i)
    \/ RunnerLock(i)
    \/ RunnerTier(i)
    \/ RunnerAcquire(i)
    \/ RunnerCheck(i)
    \/ RunnerCompose(i)
    \/ RunnerSend(i)
    \/ RunnerSleep(i)
    \/ RunnerFinish(i)

\* the thread that holds lock (a lock's value) can take a step
HolderCanStep(lock) ==
    /\ lock \in 1..Len(threads)
    /\ Alive(threads[lock])
    /\ ENABLED RunnerStep(lock)

\* a lock that is held is held by a live thread that can step, the holder of
\* the state lock holds the messaging lock too (the runner takes them in that
\* order), every live thread either can step or waits for the messaging lock
\* held by another, and a resolve request waits for nothing but the state lock
LocksLive ==
    /\ state_lock # 0 => (messaging_lock = state_lock /\ HolderCanStep(state_lock))
    /\ messaging_lock # 0 => HolderCanStep(messaging_lock)
    /\ \A i \in 1..Len(threads) :
          Alive(threads[i]) =>
             \/ ENABLED RunnerStep(i)
             \/ (threads[i].pc = "lock" /\ messaging_lock \notin {0, i})
    /\ app = "serving" =>
          \A record_id \in ResolveIds :
             state_lock # 0 \/ ENABLED Resolve(record_id)

\* C37: no deadlock: the runner takes the messaging lock and then, briefly,
\* the state lock, which the step it takes next releases; a trigger call and
\* a resolve request take the state lock only, find it free, release it
\* within the step and leave the messaging lock alone; so no reachable state
\* has every live path waiting for a lock held by another
C37_NoDeadlock ==
    /\ []LocksLive
    /\ [][/\ (last'.op = "trigger" \/ (last'.op = "resolve" /\ last'.status # 400))
             => /\ state_lock = 0
                /\ state_lock' = 0
                /\ messaging_lock' = messaging_lock
          /\ (state_lock # 0 /\ threads'[state_lock] # threads[state_lock])
             => state_lock' = 0]_vars

\* two runner threads and the handlers contend: one thread holds the messaging
\* lock and, for its pre-send check, the state lock; the other waits for the
\* messaging lock, and a trigger call waits for the state lock
C37_Witness ==
    \E i, j \in 1..Len(threads) :
        /\ threads[i].pc = "check"
        /\ messaging_lock = i
        /\ state_lock = i
        /\ threads[j].pc = "lock"
        /\ app = "serving"
        /\ ~ENABLED Resolve(threads[j].record_id)

\* the rows of a list in the opposite order
Reversed(data) == [k \in 1..Len(data) |-> data[Len(data) + 1 - k]]

\* C38: the selector's result does not depend on the order of the records in
\* the snapshot: with the rows in the opposite order, records that tie on
\* logo_potential, score and name included, the same record_id is returned
C38_OrderIndependent ==
    last.op = "select" =>
        LET best == last.status.best
            other == get_best_overlap_of(Reversed(crossbeam_data),
                                         last.status.exclude_id, weights)
        IN  /\ (best = <<>>) = (other = <<>>)
            /\ best # <<>> => best[1].record_id = other[1].record_id

====
